---- MODULE Spec2Model ----
(***************************************************************************)
(* Request lifecycle of the Auto App Builder API (src/app/main.py):        *)
(* the intake handler receive_request, the background unit                 *)
(* process_request, and the idempotency file behind load_processed and     *)
(* save_processed.                                                         *)
(*                                                                         *)
(* The handler is an async function without awaits, so it is one atomic    *)
(* step.  process_request is a plain function, which the framework runs in *)
(* a worker thread after the response; each of its blocking calls is one   *)
(* step, and steps of different units and of the handler interleave.       *)
(***************************************************************************)
EXTENDS Integers, Sequences, FiniteSets, TLC

VARIABLES file, units, last

vars == <<file, units, last>>

(***************************************************************************)
(* Bounds                                                                  *)
(***************************************************************************)
\* background units scheduled in one behaviour
MaxUnits == 2

(***************************************************************************)
(* Configuration and values                                                *)
(***************************************************************************)
USER_SECRET == "s3cret"
USERNAME == "acct"

\* Python's None, and a present value, for the nullable fields
None == <<>>
Some(v) == <<v>>

StartsWith(s, p) == Len(s) >= Len(p) /\ SubSeq(s, 1, Len(p)) = p
EndsWith(s, p) == Len(s) >= Len(p) /\ SubSeq(s, Len(s) - Len(p) + 1, Len(s)) = p

\* position of the first occurrence of the one-character string c in s, 0 if none
RECURSIVE FindFrom(_, _, _)
FindFrom(s, c, i) ==
  IF i > Len(s) THEN 0
  ELSE IF SubSeq(s, i, i) = c THEN i
  ELSE FindFrom(s, c, i + 1)

\* str(n) for a natural number
Digit(d) == SubSeq("0123456789", d + 1, d + 1)
RECURSIVE IntStr(_)
IntStr(n) == IF n < 10 THEN Digit(n) ELSE IntStr(n \div 10) \o Digit(n % 10)

(***************************************************************************)
(* TaskRequest (src/app/models.py)                                         *)
(***************************************************************************)
MinRound == 1
MaxRound == 3

NotesMd == [name |-> "notes.md", url |-> "data:text/plain;base64,aGk="]
PhotoPng == [name |-> "photo.png", url |-> "data:image/png;base64,iVBO"]
DataCsv == [name |-> "d.csv", url |-> "data:application/octet-stream;base64,MQ=="]
BadBin == [name |-> "bad.bin", url |-> "http://host/bad.bin"]

Emails == {"a@b.com"}
Tasks == {"t1"}
Nonces == {"n1"}
Urls == {"https://eval/x", "https://eval/y"}
Secrets == {USER_SECRET, "wrong"}
AttChoices == {<<>>, <<PhotoPng, NotesMd>>, <<BadBin, DataCsv>>}

\* requests that pass validation: every field present, round within MinRound..MaxRound
TaskRequest(emails, tasks, rounds, urls, atts) ==
  [email : emails, secret : Secrets, task : tasks, round : rounds,
   nonce : Nonces, brief : {"hello app"}, checks : {<<>>},
   evaluation_url : urls, attachments : atts]

(***************************************************************************)
(* PublishOutcome, the payload notified and recorded                       *)
(***************************************************************************)
RepoUrl(task) == "https://github.com/" \o USERNAME \o "/" \o task

PagesUrl(task) == "https://" \o USERNAME \o ".github.io/" \o task \o "/"

(***************************************************************************)
(* Idempotency store                                                       *)
(***************************************************************************)
EmptyMap == [k \in {} |-> None]

Put(m, k, v) == [x \in (DOMAIN m) \cup {k} |-> IF x = k THEN v ELSE m[x]]

\* length of the JSON text of a nullable string: null, or the quoted string
OptLen(o) == IF o = None THEN 4 ELSE Len(o[1]) + 2

\* characters json.dump(indent=2) spends on one entry besides its key and values
EntryOverhead == 126

EntryLen(k, p) ==
  Len(k) + Len(p.email) + 2 + Len(p.task) + 2 + Len(IntStr(p.round))
  + Len(p.nonce) + 2 + Len(p.repo_url) + 2 + OptLen(p.commit_sha)
  + OptLen(p.pages_url) + EntryOverhead

RECURSIVE SumLen(_, _)
SumLen(m, ks) ==
  IF ks = {} THEN 0
  ELSE LET k == CHOOSE x \in ks : TRUE
       IN EntryLen(k, m[k]) + SumLen(m, ks \ {k})

\* length of the text json.dump(m, indent=2) writes
JsonLen(m) ==
  IF DOMAIN m = {} THEN 2
  ELSE 4 + SumLen(m, DOMAIN m) + 2 * (Cardinality(DOMAIN m) - 1)

\* The backing file: absent, or len characters that either are not a JSON
\* document (truncated, partly written, or a document followed by the tail of
\* a longer one) or are the JSON text of the mapping data.
Missing == [state |-> "missing", len |-> 0, data |-> EmptyMap]
Invalid(n) == [state |-> "invalid", len |-> n, data |-> EmptyMap]
Whole(m) == [state |-> "whole", len |-> JsonLen(m), data |-> m]

load_processed(f) == IF f.state = "whole" THEN f.data ELSE EmptyMap

\* open(PROCESSED_PATH, "w"): the file exists and is empty
OpenForWrite(f) == Invalid(0)

\* the buffered text of m written at offset 0 when the file object is closed:
\* a longer text another writer left since the truncation keeps its tail
WriteAtStart(f, m) == IF f.len > JsonLen(m) THEN Invalid(f.len) ELSE Whole(m)

IdempotencyKey(email, task, round, nonce) ==
  email \o "::" \o task \o "::round" \o IntStr(round) \o "::nonce" \o nonce

KeyOf(d) == IdempotencyKey(d.email, d.task, d.round, d.nonce)

(***************************************************************************)
(* Collaborators                                                           *)
(***************************************************************************)
\* mime type of a data URI "data:<mime>;base64,<data>"; None when malformed
MimeOf(url) ==
  LET semi == FindFrom(url, ";", 1)
  IN IF StartsWith(url, "data:") /\ semi > 6
     THEN Some(SubSeq(url, 6, semi - 1)) ELSE None

RECURSIVE decode_attachments(_)
decode_attachments(atts) ==
  IF atts = <<>> THEN <<>>
  ELSE LET a == Head(atts)
           m == MimeOf(a.url)
       IN (IF m = None THEN <<>>
           ELSE <<[name |-> a.name, path |-> "/tmp/" \o a.name, mime |-> m[1]]>>)
          \o decode_attachments(Tail(atts))

\* the file mappings the generator may return, in insertion order
GenFiles ==
  { <<>>,
    <<[path |-> "index.html", content |-> "<html>"]>>,
    <<[path |-> "README.md", content |-> "# app"],
      [path |-> "LICENSE", content |-> "custom"]>> }

MitText == "MIT License"

(***************************************************************************)
(* Events a unit or the handler leaves behind                              *)
(***************************************************************************)
\* the call op(a) made at step at, and whether it succeeded; for load_processed,
\* a holds the mapping it returned
Ev(at, op, a, ok) == [at |-> at, op |-> op, a |-> a, ok |-> ok]

(***************************************************************************)
(* Environments: the requests clients send, the file mappings the          *)
(* generator returns, the calls that may fail, and whether clients submit  *)
(* while a unit is still running.                                          *)
(***************************************************************************)
AllFaults ==
  {"get_contents", "generate_app_code", "attachment", "create_or_update_file",
   "license", "enable_pages", "get_commits", "notify"}

Outcomes(E, op) == IF op \in E.faults THEN BOOLEAN ELSE {TRUE}

(***************************************************************************)
(* process_request: one background unit                                    *)
(***************************************************************************)
\* process_request called in the handler: its first call is made before the response
NewUnitStarted(data) ==
  [data |-> data, pc |-> "create_repo", prev_readme |-> None, files |-> <<>>,
   saved_info |-> <<>>, i |-> 1, pages_url |-> None, commit_sha |-> None,
   processed |-> EmptyMap,
   trace |-> <<[at |-> "decode", op |-> "decode_attachments", a |-> <<>>, ok |-> TRUE]>>]

NewUnit(data) ==
  [data |-> data, pc |-> "decode", prev_readme |-> None, files |-> <<>>,
   saved_info |-> <<>>, i |-> 1, pages_url |-> None, commit_sha |-> None,
   processed |-> EmptyMap, trace |-> <<>>]

\* a unit whose thread has ended: only the request and how it ended remain
Ended(u, how) == [NewUnit(u.data) EXCEPT !.pc = how]

Running(u) == u.pc \notin {"returned", "raised"}

\* the payload built from the defaults instead of the request
PayloadOfRound1(u) ==
  [email |-> u.data.email, task |-> u.data.task, round |-> 1,
   nonce |-> u.data.nonce, repo_url |-> RepoUrl(u.data.task),
   commit_sha |-> u.commit_sha, pages_url |-> u.pages_url]

Payload(u) ==
  [email |-> u.data.email, task |-> u.data.task, round |-> u.data.round,
   nonce |-> u.data.nonce, repo_url |-> RepoUrl(u.data.task),
   commit_sha |-> u.commit_sha, pages_url |-> u.pages_url]

Log(u, e) == Append(u.trace, e)

\* the README is fetched in every revising round
FetchesReadmeFrom2(round_num) == round_num >= 2

\* line 158
FetchesReadme(round_num) == round_num = 2

\* line 178
CommitsAttachments(round_num) == round_num = 1

\* pages are enabled in every round but the last
EnablesPagesBelow3(round_num) == round_num < 3

\* line 206
EnablesPages(round_num) == round_num = 1

\* only the MIME type is looked at
IsTextByMime(att) == StartsWith(att.mime, "text")

\* line 186
IsText(att) ==
  \/ StartsWith(att.mime, "text")
  \/ \E suffix \in {".md", ".csv", ".json", ".txt"} : EndsWith(att.name, suffix)

\* the repository calls lines 187-192 make for one attachment, in order
AttachmentCommits(att) ==
  IF IsText(att)
  THEN <<[op |-> "create_or_update_file", path |-> att.name,
          content |-> <<"utf8", att.path>>]>>
  ELSE <<[op |-> "create_or_update_binary_file", path |-> att.name,
          content |-> <<"bytes", att.path>>],
         [op |-> "create_or_update_file",
          path |-> "attachments/" \o att.name \o ".b64",
          content |-> <<"b64", att.path>>]>>

\* the events of calls 1..n of plan, all succeeding but call n when n = bad
CallEvents(plan, n, bad) ==
  [k \in 1..n |-> Ev("attach", plan[k].op, <<plan[k].path, plan[k].content>>, k # bad)]

\* the attachment loop of lines 178-196 left out
AfterGenerateWithoutAttachments(round_num, saved_info, files) ==
  IF files # <<>> THEN "files" ELSE "license"

AfterGenerate(round_num, saved_info, files) ==
  IF CommitsAttachments(round_num) /\ saved_info # <<>> THEN "attach"
  ELSE IF files # <<>> THEN "files" ELSE "license"

Decode(n) ==
  LET u == units[n] IN
  /\ u.pc = "decode"
  /\ units' = [units EXCEPT ![n] = [u EXCEPT
       !.pc = "create_repo",
       !.trace = Log(u, Ev("decode", "decode_attachments",
                           <<decode_attachments(u.data.attachments)>>, TRUE))]]
  /\ UNCHANGED <<file, last>>

CreateRepo(n) ==
  LET u == units[n] IN
  /\ u.pc = "create_repo"
  /\ units' = [units EXCEPT ![n] = [u EXCEPT
       !.pc = IF FetchesReadme(u.data.round) THEN "readme" ELSE "generate",
       !.prev_readme = None,
       !.trace = Log(u, Ev("create_repo", "create_repo", <<u.data.task>>, TRUE))]]
  /\ UNCHANGED <<file, last>>

FetchReadme(n, E) ==
  LET u == units[n] IN
  /\ u.pc = "readme"
  /\ \E ok \in Outcomes(E, "get_contents") :
       units' = [units EXCEPT ![n] = [u EXCEPT
         !.pc = "generate",
         !.prev_readme = IF ok THEN Some("# previous") ELSE None,
         !.trace = Log(u, Ev("readme", "get_contents", <<"README.md">>, ok))]]
  /\ UNCHANGED <<file, last>>

Generate(n, E) ==
  LET u == units[n]
      call(ok) == Ev("generate", "generate_app_code", <<u.data.round, u.prev_readme>>, ok)
  IN
  /\ u.pc = "generate"
  /\ \/ /\ FALSE \in Outcomes(E, "generate_app_code")
        /\ units' = [units EXCEPT ![n] = [u EXCEPT
             !.pc = "failed", !.trace = Log(u, call(FALSE))]]
     \/ \E files \in E.files :
          LET saved_info == decode_attachments(u.data.attachments) IN
          units' = [units EXCEPT ![n] = [u EXCEPT
            !.pc = AfterGenerate(u.data.round, saved_info, files),
            !.files = files, !.saved_info = saved_info, !.i = 1,
            !.trace = Log(u, call(TRUE))]]
  /\ UNCHANGED <<file, last>>

\* the loop of lines 181-194 with the try/except around the loop: the first
\* failure ends it
CommitAttachmentBreaking(n, E) ==
  LET u == units[n]
      att == u.saved_info[u.i]
      plan == AttachmentCommits(att)
      after == IF u.files # <<>> THEN "files" ELSE "license"
      next == IF u.i < Len(u.saved_info) THEN "attach" ELSE after
      step(to, events) == units' = [units EXCEPT ![n] = [u EXCEPT
        !.pc = to, !.i = IF to = "attach" THEN u.i + 1 ELSE 1,
        !.trace = u.trace \o events]]
  IN
  /\ u.pc = "attach"
  /\ \/ /\ FALSE \in Outcomes(E, "attachment")
        /\ step(after, <<Ev("attach", "open", <<att.path>>, FALSE)>>)
     \/ /\ FALSE \in Outcomes(E, "attachment")
        /\ \E bad \in 1..Len(plan) :
             step(after, <<Ev("attach", "open", <<att.path>>, TRUE)>>
                         \o CallEvents(plan, bad, bad))
     \/ step(next, <<Ev("attach", "open", <<att.path>>, TRUE)>>
                   \o CallEvents(plan, Len(plan), 0))
  /\ UNCHANGED <<file, last>>

\* one iteration of the loop of lines 181-194
CommitAttachment(n, E) ==
  LET u == units[n]
      att == u.saved_info[u.i]
      plan == AttachmentCommits(att)
      next == IF u.i < Len(u.saved_info) THEN "attach"
              ELSE IF u.files # <<>> THEN "files" ELSE "license"
      step(events) == units' = [units EXCEPT ![n] = [u EXCEPT
        !.pc = next, !.i = IF next = "attach" THEN u.i + 1 ELSE 1,
        !.trace = u.trace \o events]]
  IN
  /\ u.pc = "attach"
  /\ \/ /\ FALSE \in Outcomes(E, "attachment")
        /\ step(<<Ev("attach", "open", <<att.path>>, FALSE)>>)
     \/ /\ FALSE \in Outcomes(E, "attachment")
        /\ \E bad \in 1..Len(plan) :
             step(<<Ev("attach", "open", <<att.path>>, TRUE)>> \o CallEvents(plan, bad, bad))
     \/ step(<<Ev("attach", "open", <<att.path>>, TRUE)>> \o CallEvents(plan, Len(plan), 0))
  /\ UNCHANGED <<file, last>>

\* the loop of lines 199-200 with each commit in a try/except that goes on
CommitFileCaught(n, E) ==
  LET u == units[n]
      f == u.files[u.i]
  IN
  /\ u.pc = "files"
  /\ \E ok \in Outcomes(E, "create_or_update_file") :
       units' = [units EXCEPT ![n] = [u EXCEPT
         !.pc = IF u.i < Len(u.files) THEN "files" ELSE "license",
         !.i = IF u.i < Len(u.files) THEN u.i + 1 ELSE 1,
         !.trace = Log(u, Ev("files", "create_or_update_file",
                             <<f.path, f.content>>, ok))]]
  /\ UNCHANGED <<file, last>>

\* one iteration of the loop of lines 199-200
CommitFile(n, E) ==
  LET u == units[n]
      f == u.files[u.i]
      call(ok) == Ev("files", "create_or_update_file", <<f.path, f.content>>, ok)
  IN
  /\ u.pc = "files"
  /\ \E ok \in Outcomes(E, "create_or_update_file") :
       units' = [units EXCEPT ![n] = [u EXCEPT
         !.pc = IF ~ok THEN "failed"
                ELSE IF u.i < Len(u.files) THEN "files" ELSE "license",
         !.i = IF ok /\ u.i < Len(u.files) THEN u.i + 1 ELSE 1,
         !.trace = Log(u, call(ok))]]
  /\ UNCHANGED <<file, last>>

\* the LICENSE is committed only when the generator returned none
CommitLicenseIfAbsent(n, E) ==
  LET u == units[n]
      call(ok) == Ev("license", "create_or_update_file", <<"LICENSE", MitText>>, ok)
      generated == \E k \in DOMAIN u.files : u.files[k].path = "LICENSE"
  IN
  /\ u.pc = "license"
  /\ \E ok \in (IF generated THEN {TRUE} ELSE Outcomes(E, "license")) :
       units' = [units EXCEPT ![n] = [u EXCEPT
         !.pc = IF ~ok THEN "failed"
                ELSE IF EnablesPages(u.data.round) THEN "pages" ELSE "sha",
         !.pages_url = IF ok /\ ~EnablesPages(u.data.round)
                       THEN Some(PagesUrl(u.data.task)) ELSE None,
         !.trace = IF generated THEN u.trace ELSE Log(u, call(ok))]]
  /\ UNCHANGED <<file, last>>

CommitLicense(n, E) ==
  LET u == units[n]
      call(ok) == Ev("license", "create_or_update_file", <<"LICENSE", MitText>>, ok)
  IN
  /\ u.pc = "license"
  /\ \E ok \in Outcomes(E, "license") :
       units' = [units EXCEPT ![n] = [u EXCEPT
         !.pc = IF ~ok THEN "failed"
                ELSE IF EnablesPages(u.data.round) THEN "pages" ELSE "sha",
         !.pages_url = IF ok /\ ~EnablesPages(u.data.round)
                       THEN Some(PagesUrl(u.data.task)) ELSE None,
         !.trace = Log(u, call(ok))]]
  /\ UNCHANGED <<file, last>>

EnablePages(n, E) ==
  LET u == units[n] IN
  /\ u.pc = "pages"
  /\ \E pages_ok \in Outcomes(E, "enable_pages") :
       units' = [units EXCEPT ![n] = [u EXCEPT
         !.pc = "sha",
         !.pages_url = IF pages_ok THEN Some(PagesUrl(u.data.task)) ELSE None,
         !.trace = Log(u, Ev("pages", "enable_pages", <<u.data.task>>, pages_ok))]]
  /\ UNCHANGED <<file, last>>

\* lines 213-216 without the try/except
GetCommitShaUncaught(n, E) ==
  LET u == units[n] IN
  /\ u.pc = "sha"
  /\ \E ok \in Outcomes(E, "get_commits") :
       units' = [units EXCEPT ![n] = [u EXCEPT
         !.pc = IF ok THEN "notify" ELSE "failed",
         !.commit_sha = IF ok THEN Some("abc123") ELSE None,
         !.trace = Log(u, Ev("sha", "get_commits", <<>>, ok))]]
  /\ UNCHANGED <<file, last>>

GetCommitSha(n, E) ==
  LET u == units[n] IN
  /\ u.pc = "sha"
  /\ \E ok \in Outcomes(E, "get_commits") :
       units' = [units EXCEPT ![n] = [u EXCEPT
         !.pc = "notify",
         !.commit_sha = IF ok THEN Some("abc123") ELSE None,
         !.trace = Log(u, Ev("sha", "get_commits", <<>>, ok))]]
  /\ UNCHANGED <<file, last>>

\* the payload notified is built before the commit SHA is known
NotifyWithoutSha(n, E) ==
  LET u == units[n] IN
  /\ u.pc = "notify"
  /\ \E ok \in Outcomes(E, "notify") :
       units' = [units EXCEPT ![n] = [u EXCEPT
         !.pc = "load",
         !.trace = Log(u, Ev("notify", "notify_evaluation_server",
                             <<u.data.evaluation_url,
                               [Payload(u) EXCEPT !.commit_sha = None]>>, ok))]]
  /\ UNCHANGED <<file, last>>

Notify(n, E) ==
  LET u == units[n] IN
  /\ u.pc = "notify"
  /\ \E ok \in Outcomes(E, "notify") :
       units' = [units EXCEPT ![n] = [u EXCEPT
         !.pc = "load",
         !.trace = Log(u, Ev("notify", "notify_evaluation_server",
                             <<u.data.evaluation_url, Payload(u)>>, ok))]]
  /\ UNCHANGED <<file, last>>

\* lines 230-232 with a key of email and task only
LoadAndSetUnderTask(n) ==
  LET u == units[n] IN
  /\ u.pc = "load"
  /\ units' = [units EXCEPT ![n] = [u EXCEPT
       !.pc = "open",
       !.processed = Put(load_processed(file), u.data.email \o "::" \o u.data.task,
                         Payload(u)),
       !.trace = Log(u, Ev("load", "load_processed", <<load_processed(file)>>, TRUE))]]
  /\ UNCHANGED <<file, last>>

\* lines 230-232 with a load_processed that lets the decode error through
LoadAndSetUncaught(n) ==
  LET u == units[n] IN
  /\ u.pc = "load"
  /\ units' = [units EXCEPT ![n] = [u EXCEPT
       !.pc = IF file.state = "invalid" THEN "failed" ELSE "open",
       !.processed = Put(load_processed(file), KeyOf(u.data), Payload(u)),
       !.trace = Log(u, Ev("load", "load_processed", <<load_processed(file)>>,
                           file.state # "invalid"))]]
  /\ UNCHANGED <<file, last>>

\* lines 230-232
LoadAndSet(n) ==
  LET u == units[n] IN
  /\ u.pc = "load"
  /\ units' = [units EXCEPT ![n] = [u EXCEPT
       !.pc = "open",
       !.processed = Put(load_processed(file), KeyOf(u.data), Payload(u)),
       !.trace = Log(u, Ev("load", "load_processed", <<load_processed(file)>>, TRUE))]]
  /\ UNCHANGED <<file, last>>

\* line 39, open(PROCESSED_PATH, "w")
SaveOpen(n) ==
  LET u == units[n] IN
  /\ u.pc = "open"
  /\ file' = OpenForWrite(file)
  /\ units' = [units EXCEPT ![n] = [u EXCEPT
       !.pc = "write", !.trace = Log(u, Ev("open", "open_w", <<>>, TRUE))]]
  /\ UNCHANGED last

\* line 39, json.dump and the close of the file object
SaveWrite(n) ==
  LET u == units[n] IN
  /\ u.pc = "write"
  /\ file' = WriteAtStart(file, u.processed)
  /\ units' = [units EXCEPT ![n] = [u EXCEPT
       !.pc = "done", !.trace = Log(u, Ev("write", "save_processed", <<u.processed>>, TRUE))]]
  /\ UNCHANGED last

\* the thread ends: by the return of line 235, or by the exception
Exit(n) ==
  LET u == units[n] IN
  /\ u.pc \in {"done", "failed"}
  /\ units' = [units EXCEPT
       ![n] = Ended(u, IF u.pc = "done" THEN "returned" ELSE "raised")]
  /\ UNCHANGED <<file, last>>

(***************************************************************************)
(* receive_request: POST /api-endpoint                                     *)
(***************************************************************************)
\* the secret is never compared
SecretUnchecked(task) == TRUE

\* line 268
SecretOk(task) == task.secret = USER_SECRET

\* what one call of the handler did: its response, whether it read the store,
\* the Notifier calls it made and the units it scheduled
Handled(task, code, status, note, read, notified, scheduled) ==
  Some([task |-> task, code |-> code, status |-> status, note |-> note,
        read |-> read, notified |-> notified, scheduled |-> scheduled])

\* the branch lines 268-291 take for a request, given the backing file
Intake(task, f) ==
  IF ~SecretOk(task) THEN "unauthorized"
  ELSE IF KeyOf(task) \in DOMAIN load_processed(f) THEN "duplicate"
  ELSE "accepted"

Unauthorized(task) ==
  /\ Intake(task, file) = "unauthorized"
  /\ last' = Handled(task, 401, "error", "Invalid secret", FALSE, <<>>, <<>>)
  /\ UNCHANGED <<file, units>>

Duplicate(task, E) ==
  LET processed == load_processed(file)
      key == KeyOf(task)
  IN
  /\ Intake(task, file) = "duplicate"
  /\ \E ok \in Outcomes(E, "notify") :
       last' = Handled(task, 200, "ok", "duplicate handled & re-notified", TRUE,
                       <<Ev("intake", "notify_evaluation_server",
                            <<task.evaluation_url, processed[key]>>, ok)>>, <<>>)
  /\ UNCHANGED <<file, units>>

\* the accepted response without the add_task of line 286
AcceptUnscheduled(task) ==
  /\ Intake(task, file) = "accepted"
  /\ Len(units) < MaxUnits
  /\ last' = Handled(task, 200, "accepted",
                     "processing round " \o IntStr(task.round) \o " started",
                     TRUE, <<>>, <<>>)
  /\ UNCHANGED <<file, units>>

\* the key is reserved when its unit is scheduled: a request whose key has a
\* unit in progress is answered without scheduling another one
AcceptOncePerKey(task) ==
  LET pending == \E n \in DOMAIN units :
                   Running(units[n]) /\ KeyOf(units[n].data) = KeyOf(task)
  IN
  /\ Intake(task, file) = "accepted"
  /\ Len(units) < MaxUnits
  /\ units' = IF pending THEN units ELSE Append(units, NewUnit(task))
  /\ last' = IF pending
             THEN Handled(task, 200, "ok", "in progress", TRUE, <<>>, <<>>)
             ELSE Handled(task, 200, "accepted",
                          "processing round " \o IntStr(task.round) \o " started",
                          TRUE, <<>>, <<Len(units) + 1>>)
  /\ UNCHANGED file

Accept(task) ==
  /\ Intake(task, file) = "accepted"
  /\ Len(units) < MaxUnits
  /\ units' = Append(units, NewUnit(task))
  /\ last' = Handled(task, 200, "accepted",
                     "processing round " \o IntStr(task.round) \o " started",
                     TRUE, <<>>, <<Len(units) + 1>>)
  /\ UNCHANGED file

receive_request(task, E) ==
  /\ E.overlap \/ \A n \in DOMAIN units : ~Running(units[n])
  /\ \/ Unauthorized(task)
     \/ Duplicate(task, E)
     \/ Accept(task)

(***************************************************************************)
(* Specifications                                                          *)
(***************************************************************************)
Init ==
  /\ file = Missing
  /\ units = <<>>
  /\ last = <<>>

\* clients that wait for a unit to end before the next request; every
\* collaborator may fail
Solo ==
  [reqs |-> TaskRequest(Emails, Tasks, MinRound..MaxRound, {"https://eval/x"},
                        AttChoices),
   files |-> GenFiles, faults |-> AllFaults, overlap |-> FALSE]

\* clients that submit at any time
Overlapping ==
  [reqs |-> TaskRequest(Emails, Tasks, {1, 2}, Urls, {<<PhotoPng>>}),
   files |-> {<<[path |-> "index.html", content |-> "<html>"]>>},
   faults |-> {"generate_app_code", "create_or_update_file", "get_commits"},
   overlap |-> TRUE]

Units == DOMAIN units

NextOf(E) ==
  \/ \E task \in E.reqs : receive_request(task, E)
  \/ \E n \in Units : Decode(n)
  \/ \E n \in Units : CreateRepo(n)
  \/ \E n \in Units : FetchReadme(n, E)
  \/ \E n \in Units : Generate(n, E)
  \/ \E n \in Units : CommitAttachment(n, E)
  \/ \E n \in Units : CommitFile(n, E)
  \/ \E n \in Units : CommitLicense(n, E)
  \/ \E n \in Units : EnablePages(n, E)
  \/ \E n \in Units : GetCommitSha(n, E)
  \/ \E n \in Units : Notify(n, E)
  \/ \E n \in Units : LoadAndSet(n)
  \/ \E n \in Units : SaveOpen(n)
  \/ \E n \in Units : SaveWrite(n)
  \/ \E n \in Units : Exit(n)

\* any step of unit n
UnitStep(n, E) ==
  \/ Decode(n) \/ CreateRepo(n) \/ FetchReadme(n, E) \/ Generate(n, E)
  \/ CommitAttachment(n, E) \/ CommitFile(n, E) \/ CommitLicense(n, E)
  \/ EnablePages(n, E) \/ GetCommitSha(n, E) \/ Notify(n, E)
  \/ LoadAndSet(n) \/ SaveOpen(n) \/ SaveWrite(n) \/ Exit(n)

Next == NextOf(Overlapping)

Spec == Init /\ [][Next]_vars

\* every scheduled unit gets its worker thread, and every call it makes returns
Fairness ==
  \A n \in 1..MaxUnits : WF_vars(n \in Units /\ UnitStep(n, Overlapping))

FairSpec == Spec /\ Fairness

SoloNext == NextOf(Solo)

SoloSpec == Init /\ [][SoloNext]_vars

\* clients whose emails and task names contain the separator of the key, one
\* request at a time
Delimited ==
  [reqs |-> TaskRequest({"a", "a::b"}, {"c", "b::c"}, {1, 2}, {"https://eval/x"},
                        {<<PhotoPng>>}),
   files |-> {<<[path |-> "index.html", content |-> "<html>"]>>},
   faults |-> {}, overlap |-> FALSE]

KeyNext == NextOf(Delimited)

KeySpec == Init /\ [][KeyNext]_vars

(***************************************************************************)
(* Claims                                                                  *)
(***************************************************************************)
Answered == last # <<>>
Answer == last[1]

\* the backing file holds a record under key k
Stored(f, k) == f.state = "whole" /\ k \in DOMAIN f.data

\* the key of the spec: (email, task, round, nonce)
KeyFields(d) == <<d.email, d.task, d.round, d.nonce>>

WrongSecret(task) == task.secret # USER_SECRET
RightSecret(task) == task.secret = USER_SECRET

\* a handler call has just returned, for a request with a wrong or the right secret
ReturnsWrong == last' # last /\ WrongSecret(last'[1].task)
ReturnsRight == last' # last /\ RightSecret(last'[1].task)

\* C1: a request whose secret differs from the configured one is answered 401
\* and nothing else happens: the store is neither read nor written, no
\* Notifier call is made and no unit is scheduled, whatever the store holds.
C1_Rejected ==
  /\ [](Answered /\ WrongSecret(Answer.task) =>
          /\ Answer.code = 401
          /\ ~Answer.read
          /\ Answer.notified = <<>>
          /\ Answer.scheduled = <<>>)
  /\ [][ReturnsWrong => UNCHANGED <<file, units>>]_vars

\* a 401 for a request whose own key has a record in the store
C1_Witness ==
  /\ Answered /\ WrongSecret(Answer.task) /\ Answer.code = 401
  /\ Stored(file, KeyOf(Answer.task))

\* C2, as stated: every authorized request is answered accepted and schedules
\* exactly one unit.
C2_AlwaysAccepted ==
  Answered /\ RightSecret(Answer.task) =>
    Answer.status = "accepted" /\ Len(Answer.scheduled) = 1

\* C2, amended: an authorized request whose key has no record in the store (as
\* Load returns it) is answered accepted and schedules exactly one unit, which
\* holds the request; one whose key has a record is answered ok and
\* schedules none.
C2_AcceptedUnlessStored ==
  [][ReturnsRight =>
       LET task == last'[1].task IN
       IF Stored(file, KeyOf(task))
       THEN /\ last'[1].status = "ok" /\ last'[1].scheduled = <<>>
            /\ units' = units
       ELSE /\ last'[1].status = "accepted" /\ last'[1].code = 200
            /\ last'[1].scheduled = <<Len(units) + 1>>
            /\ Len(units') = Len(units) + 1
            /\ units'[Len(units')].data = task
            /\ \A n \in DOMAIN units : units'[n] = units[n]]_vars

\* both cases have happened: the last request was accepted although the store
\* already held a record of another key
C2_Witness ==
  /\ Answered /\ RightSecret(Answer.task) /\ Answer.status = "accepted"
  /\ file.state = "whole" /\ DOMAIN file.data # {}
  /\ Len(units) = 2 /\ units[1].pc = "returned"

\* C3: once a unit for a key has completed and recorded its outcome, a request
\* with that key is answered as a duplicate (ok, one Notifier call to its
\* evaluation URL carrying the stored record, no unit), whatever other
\* requests were processed in between.  Stated for the states in which no
\* unit is in the middle of a save.
C3_DuplicateAfterRecord ==
  \A n \in DOMAIN units : \A task \in Overlapping.reqs :
    /\ units[n].pc = "returned"
    /\ \A m \in DOMAIN units : units[m].pc # "write"
    /\ RightSecret(task)
    /\ KeyFields(task) = KeyFields(units[n].data)
    => Intake(task, file) = "duplicate"

\* C4: the accepted response is produced before any step of the unit: when the
\* handler returns, the unit it scheduled has made no call, and no later step
\* of a unit, completing or failing, changes the response.
C4_AcceptedBeforeAnyStep ==
  /\ [][Len(units') > Len(units) =>
          LET u == units'[Len(units')] IN
          /\ u.pc = "decode" /\ u.trace = <<>>
          /\ last' # last /\ last'[1].status = "accepted"
          /\ last'[1].scheduled = <<Len(units')>>]_vars
  /\ [][Len(units') = Len(units) /\ units' # units => last' = last]_vars

\* the response to a request is accepted, and its unit has failed since
C4_Witness ==
  /\ Answered /\ Answer.status = "accepted"
  /\ \E n \in DOMAIN units :
       Answer.scheduled = <<n>> /\ units[n].pc = "failed"

\* the events of a trace made at the steps in ats
At(trace, ats) == SelectSeq(trace, LAMBDA e : e.at \in ats)

Calls(trace, op) == SelectSeq(trace, LAMBDA e : e.op = op)

AfterPages == {"sha", "notify", "load", "open", "write", "done"}

AccountPages(task) == "https://" \o USERNAME \o ".github.io/" \o task \o "/"

\* C5: in a round-1 unit pages enablement is called exactly once and the
\* outcome's pages_url is the account's pages address of the task if it
\* reported success and null otherwise; in a unit of round 2 or 3 it is never
\* called and pages_url is always that address.
C5_RoundInvariant ==
  \A n \in DOMAIN units :
    LET u == units[n]
        calls == Calls(u.trace, "enable_pages")
        url == Some(AccountPages(u.data.task))
        outcome == IF u.data.round = 1
                   THEN IF calls[1].ok THEN url ELSE None
                   ELSE url
    IN
    Running(u) =>
      /\ Len(calls) <= (IF u.data.round = 1 THEN 1 ELSE 0)
      /\ u.pc \in AfterPages =>
           /\ Len(calls) = (IF u.data.round = 1 THEN 1 ELSE 0)
           /\ Payload(u).pages_url = outcome
           /\ \A k \in DOMAIN u.trace :
                u.trace[k].op = "notify_evaluation_server" =>
                  u.trace[k].a[2].pages_url = outcome
      /\ u.pc = "done" => u.processed[KeyOf(u.data)].pages_url = outcome

\* a round-1 unit recorded a null pages_url after enablement reported failure,
\* while the store holds the pages address a round-2 unit recorded
C5_Witness ==
  \E n \in DOMAIN units :
    LET u == units[n] IN
    /\ u.pc = "done" /\ u.data.round = 1
    /\ Calls(u.trace, "enable_pages")[1].ok = FALSE
    /\ u.processed[KeyOf(u.data)].pages_url = None
    /\ \E k \in DOMAIN file.data :
         file.data[k].round = 2 /\ file.data[k].pages_url # None

\* the steps of a complete run, in order
StepsOfRun(round, saved_info, files) ==
  <<"decode", "create_repo">>
  \o (IF round = 2 THEN <<"readme">> ELSE <<>>)
  \o <<"generate">>
  \o (IF round = 1 /\ saved_info # <<>> THEN <<"attach">> ELSE <<>>)
  \o (IF files # <<>> THEN <<"files">> ELSE <<>>)
  \o <<"license">>
  \o (IF round = 1 THEN <<"pages">> ELSE <<>>)
  \o <<"sha", "notify", "load", "open", "write">>

\* the steps a trace went through: its step labels without repetitions
RECURSIVE StepsOf(_)
StepsOf(trace) ==
  IF trace = <<>> THEN <<>>
  ELSE LET rest == StepsOf(Tail(trace)) IN
       IF rest # <<>> /\ Head(rest) = Head(trace).at THEN rest
       ELSE <<Head(trace).at>> \o rest

FatalSteps == {"generate", "files", "license"}

Failure(e) == ~e.ok
FatalFailure(e) == ~e.ok /\ e.at \in FatalSteps
TransientFailure(e) == ~e.ok /\ e.at \notin FatalSteps

Last(seq) == seq[Len(seq)]

\* C7: a failure of a transient collaborator step (attachment decode, README
\* fetch, a per-attachment commit, pages enablement, commit-SHA fetch,
\* notification) never aborts the unit: a unit ends by an exception only at a
\* failed generation or file commit, the datum of a failed step is None, and
\* a unit that reaches its end has run every step and written its record.
C7_TransientFailuresTolerated ==
  \A n \in DOMAIN units :
    LET u == units[n] IN
    Running(u) =>
      /\ u.pc = "failed" => FatalFailure(Last(u.trace))
      /\ \A k \in DOMAIN u.trace :
           TransientFailure(u.trace[k]) =>
             /\ k < Len(u.trace) \/ u.pc # "failed"
             /\ u.trace[k].at = "readme" => u.prev_readme = None
             /\ u.trace[k].at = "sha" => u.commit_sha = None
             /\ u.trace[k].at = "pages" => u.pages_url = None
      /\ u.pc = "done" =>
           /\ StepsOf(u.trace) = StepsOfRun(u.data.round, u.saved_info, u.files)
           /\ Stored(file, KeyOf(u.data))
           /\ file.data[KeyOf(u.data)] = Payload(u)

\* a round-1 unit wrote its record after an attachment that did not decode, a
\* failed attachment commit, a failed pages enablement, a failed commit-SHA
\* fetch and a failed notification
C7_Witness ==
  \E n \in DOMAIN units :
    LET u == units[n]
        failed == {u.trace[k].at : k \in {j \in DOMAIN u.trace : Failure(u.trace[j])}}
    IN
    /\ u.pc = "done"
    /\ failed = {"attach", "pages", "sha", "notify"}
    /\ Len(u.saved_info) < Len(u.data.attachments)
    /\ Stored(file, KeyOf(u.data))

\* C8: when the generator or a commit of the generated files throws, the unit
\* ends there: it makes no further call, so no Notifier call and no access to
\* the store; a record is in the store only for a key some unit has written;
\* and a resubmission of a key whose units all ended that way is accepted as
\* new and scheduled again.
C8_FatalFailureEndsUnit ==
  /\ [](\A n \in DOMAIN units :
          LET u == units[n] IN
          Running(u) =>
            /\ \A k \in DOMAIN u.trace :
                 FatalFailure(u.trace[k]) => k = Len(u.trace) /\ u.pc = "failed"
            /\ u.pc = "failed" =>
                 At(u.trace, {"notify", "load", "open", "write"}) = <<>>)
  /\ [](\A k \in DOMAIN file.data :
          \E n \in DOMAIN units :
            /\ KeyOf(units[n].data) = k
            /\ units[n].pc \in {"done", "returned"})
  /\ [][ReturnsRight =>
          LET task == last'[1].task
              same == {n \in DOMAIN units :
                         KeyFields(units[n].data) = KeyFields(task)}
          IN
          same # {} /\ (\A n \in same : units[n].pc = "raised") =>
            /\ last'[1].status = "accepted"
            /\ Len(units') = Len(units) + 1
            /\ units'[Len(units')].data = task
            /\ units'[Len(units')].pc = "decode"]_vars

\* after a unit ended by an exception, a unit for the same key has run the
\* sequence to its end
C8_Witness ==
  /\ Len(units) = 2
  /\ units[1].pc = "raised"
  /\ KeyFields(units[2].data) = KeyFields(units[1].data)
  /\ units[2].pc = "done"

\* C9: the README is fetched only in round 2; when the fetch fails the
\* generator is called with no prior README and the unit goes on; in every
\* other round the generator is called with no prior README.
C9_ReadmeContext ==
  \A n \in DOMAIN units :
    LET u == units[n]
        fetches == Calls(u.trace, "get_contents")
        gens == Calls(u.trace, "generate_app_code")
    IN
    Running(u) =>
      /\ Len(fetches) <= (IF u.data.round = 2 THEN 1 ELSE 0)
      /\ Len(gens) <= 1
      /\ gens # <<>> =>
           /\ Len(fetches) = (IF u.data.round = 2 THEN 1 ELSE 0)
           /\ gens[1].a[1] = u.data.round
           /\ u.data.round # 2 => gens[1].a[2] = None
           /\ u.data.round = 2 /\ ~fetches[1].ok => gens[1].a[2] = None
           /\ u.data.round = 2 /\ fetches[1].ok => gens[1].a[2] # None
      /\ u.trace # <<>> /\ Last(u.trace).op = "get_contents" => u.pc = "generate"

\* a round-2 unit whose README fetch failed has run to its end
C9_Witness ==
  \E n \in DOMAIN units :
    LET u == units[n] IN
    /\ u.data.round = 2 /\ u.pc = "done"
    /\ Calls(u.trace, "get_contents")[1].ok = FALSE
    /\ Calls(u.trace, "generate_app_code")[1].a[2] = None

\* C10 reads an attachment's kind off its MIME type and its name
TextKind(att) ==
  \/ StartsWith(att.mime, "text")
  \/ EndsWith(att.name, ".md") \/ EndsWith(att.name, ".csv")
  \/ EndsWith(att.name, ".json") \/ EndsWith(att.name, ".txt")

\* the commits C10 names for an attachment: <<call, path>>
CommitsOf(att) ==
  IF TextKind(att)
  THEN <<<<"create_or_update_file", att.name>>>>
  ELSE <<<<"create_or_update_binary_file", att.name>>,
         <<"create_or_update_file", "attachments/" \o att.name \o ".b64">>>>

RECURSIVE CommitsOfAll(_)
CommitsOfAll(atts) ==
  IF atts = <<>> THEN <<>> ELSE CommitsOf(Head(atts)) \o CommitsOfAll(Tail(atts))

\* what the attachment loop left of one attachment: <<call, path, ok>>
Brief(events) == [k \in DOMAIN events |-> <<events[k].op, events[k].a[1], events[k].ok>>]

\* the ways the loop can treat one attachment: the read fails and nothing is
\* committed; a commit fails and the remaining ones are skipped; or the read
\* and every commit succeed
Treatments(att) ==
  LET plan == CommitsOf(att)
      upTo(n, bad) == [k \in 1..n |-> <<plan[k][1], plan[k][2], k # bad>>]
  IN {<<<<"open", att.path, FALSE>>>>}
     \cup {<<<<"open", att.path, TRUE>>>> \o upTo(bad, bad) : bad \in 1..Len(plan)}
     \cup {<<<<"open", att.path, TRUE>>>> \o upTo(Len(plan), 0)}

RECURSIVE TreatmentsOfAll(_)
TreatmentsOfAll(atts) ==
  IF atts = <<>> THEN {<<>>}
  ELSE {t \o rest : t \in Treatments(Head(atts)), rest \in TreatmentsOfAll(Tail(atts))}

PastAttachments ==
  {"files", "license", "pages", "sha", "notify", "load", "open", "write", "done"}

\* the attachments the loop is through with
Treated(u) ==
  IF u.data.round # 1 THEN <<>>
  ELSE IF u.pc = "attach" THEN SubSeq(u.saved_info, 1, u.i - 1)
  ELSE u.saved_info

\* C10, as stated: in a round-1 unit every saved attachment of text kind is
\* committed as one text file at its name and every other one as a binary
\* file at its name and a base64 text file at attachments/<name>.b64; in
\* round 2 or 3 none is committed.
C10_EveryAttachmentCommitted ==
  \A n \in DOMAIN units :
    LET u == units[n]
        committed == SelectSeq(u.trace,
                       LAMBDA e : e.at = "attach" /\ e.op # "open" /\ e.ok)
    IN
    u.pc \in PastAttachments =>
      [k \in DOMAIN committed |-> <<committed[k].op, committed[k].a[1]>>]
        = CommitsOfAll(IF u.data.round = 1 THEN u.saved_info ELSE <<>>)

\* C10, amended: the same for every saved attachment that is read and
\* committed without a failure; an attachment whose read fails is not
\* committed, and a failed commit skips the attachment's remaining commit.
C10_AttachmentsByKind ==
  \A n \in DOMAIN units :
    LET u == units[n] IN
    Running(u) =>
      Brief(At(u.trace, {"attach"})) \in TreatmentsOfAll(Treated(u))

\* a round-1 unit is through with a binary and a text attachment, every
\* commit having succeeded
C10_Witness ==
  \E n \in DOMAIN units :
    LET u == units[n] IN
    /\ u.pc = "done" /\ u.data.round = 1
    /\ Len(u.saved_info) = 2
    /\ ~TextKind(u.saved_info[1]) /\ TextKind(u.saved_info[2])
    /\ Len(At(u.trace, {"attach"})) = 5
    /\ \A k \in DOMAIN u.trace : u.trace[k].at = "attach" => u.trace[k].ok

\* the Notifier calls of a unit, each to its request's evaluation URL with a
\* payload for its request
NotifiesOwnRequest(u) ==
  \A k \in DOMAIN u.trace :
    u.trace[k].op = "notify_evaluation_server" =>
      /\ u.trace[k].a[1] = u.data.evaluation_url
      /\ KeyFields(u.trace[k].a[2]) = KeyFields(u.data)

NotifiedOnce(u) ==
  Len(Calls(u.trace, "notify_evaluation_server")) = 1 /\ NotifiesOwnRequest(u)

\* C6: every accepted request leads to exactly one Notifier call from its
\* unit, to the request's evaluation URL and with the request's email, task,
\* round and nonce, unless the generator or a file commit fails; every call
\* the unit makes returns.
C6_EventuallyNotified ==
  /\ [](\A n \in DOMAIN units :
          /\ Len(Calls(units[n].trace, "notify_evaluation_server")) <= 1
          /\ NotifiesOwnRequest(units[n])
          /\ units[n].pc \in {"load", "open", "write", "done"} =>
               NotifiedOnce(units[n]))
  /\ \A n \in 1..MaxUnits :
       (n \in DOMAIN units /\ units[n].pc = "decode")
         ~> (n \in DOMAIN units
             /\ \/ NotifiedOnce(units[n])
                \/ units[n].pc = "failed" /\ FatalFailure(Last(units[n].trace)))

\* a unit has notified the evaluation URL of its request, another one of the
\* same key has failed at generation
C6_Witness ==
  /\ Len(units) = 2
  /\ units[1].pc = "failed"
  /\ units[2].pc = "load" /\ NotifiedOnce(units[2])
  /\ units[2].data.evaluation_url # units[1].data.evaluation_url

\* the backing file is absent, or its text is not a JSON document
Unreadable(f) == f.state \in {"missing", "invalid"}

Loaded(u) == Calls(u.trace, "load_processed")[1].a[1]

\* C12: a record is never mutated after creation: a value the store held
\* under a key when a unit loaded it is the value the store holds under that
\* key after the unit's save.
C12_NeverMutated ==
  \A n \in DOMAIN units :
    LET u == units[n] IN
    u.pc = "done" /\ file = Whole(u.processed) =>
      \A k \in DOMAIN Loaded(u) : file.data[k] = Loaded(u)[k]

\* C13: two requests get the same key exactly if they agree on email, task,
\* round and nonce, so a request is never answered as the duplicate of a
\* request with another (email, task, round, nonce): the record it is
\* re-notified with is a record of its own tuple.
C13_KeyIdentifiesRequest ==
  Answered /\ RightSecret(Answer.task) =>
    /\ \A n \in DOMAIN units :
         KeyOf(units[n].data) = KeyOf(Answer.task)
           <=> KeyFields(units[n].data) = KeyFields(Answer.task)
    /\ Answer.status = "ok" =>
         KeyFields(Answer.notified[1].a[2]) = KeyFields(Answer.task)

IsPrefix(s, t) == Len(s) <= Len(t) /\ SubSeq(t, 1, Len(s)) = s

\* C14: the steps of a unit run one after the other in the order: materialize
\* attachments, repository, README fetch (round 2), generation, attachment
\* commits (round 1), generated-file commits, LICENSE commit, pages
\* enablement (round 1), commit SHA, notification, record.  The Notifier is
\* called before the store is loaded or written, and the record a unit
\* stores is one it has made a Notifier call for.
C14_StepsInOrder ==
  \A n \in DOMAIN units :
    LET u == units[n] IN
    Running(u) =>
      /\ IsPrefix(StepsOf(u.trace), StepsOfRun(u.data.round, u.saved_info, u.files))
      /\ \A j, k \in DOMAIN u.trace :
           u.trace[j].at = "notify" /\ u.trace[k].at \in {"load", "open", "write"}
             => j < k
      /\ \A k \in DOMAIN u.trace :
           u.trace[k].op = "save_processed" =>
             \E j \in 1..(k - 1) :
               /\ u.trace[j].op = "notify_evaluation_server"
               /\ u.trace[j].a[2] = u.trace[k].a[1][KeyOf(u.data)]

\* a round-1 unit has gone through every step of its round, and a round-2
\* unit before it through the README fetch
C14_Witness ==
  /\ Len(units) = 2
  /\ units[1].data.round = 2 /\ units[1].pc = "returned"
  /\ units[2].data.round = 1 /\ units[2].pc = "done"
  /\ StepsOf(units[2].trace)
       = <<"decode", "create_repo", "generate", "attach", "files", "license",
           "pages", "sha", "notify", "load", "open", "write">>

\* the reads of the attachment loop
Reads(u) == Calls(At(u.trace, {"attach"}), "open")

\* C15: in a round-1 unit a failed read or commit of one saved attachment
\* ends neither the loop nor the unit: every saved attachment is read in
\* turn, whatever failed before it, each one that is read has a commit
\* attempted at its name, and after the last one the generated files are
\* committed (the LICENSE when there are none).
C15_AttachmentsIndependent ==
  \A n \in DOMAIN units :
    LET u == units[n]
        loop == At(u.trace, {"attach"})
        after == IF u.files # <<>> THEN "files" ELSE "license"
    IN
    Running(u) /\ loop # <<>> =>
      /\ u.data.round = 1
      /\ Len(Reads(u)) = (IF u.pc = "attach" THEN u.i - 1 ELSE Len(u.saved_info))
      /\ \A k \in DOMAIN Reads(u) : Reads(u)[k].a[1] = u.saved_info[k].path
      /\ \A k \in DOMAIN loop :
           loop[k].op = "open" /\ loop[k].ok =>
             /\ k < Len(loop)
             /\ loop[k + 1].op \in {"create_or_update_file",
                                    "create_or_update_binary_file"}
             /\ "/tmp/" \o loop[k + 1].a[1] = loop[k].a[1]
      /\ u.pc = "failed" => Last(u.trace).at # "attach"
      /\ Last(u.trace).at = "attach" =>
           u.pc = (IF Len(Reads(u)) < Len(u.saved_info) THEN "attach" ELSE after)
      /\ \A k \in DOMAIN u.trace :
           k > 1 /\ u.trace[k - 1].at = "attach" /\ u.trace[k].at # "attach" =>
             /\ u.trace[k].at = after
             /\ Len(Reads(u)) = Len(u.saved_info)

\* the read of the first of two saved attachments failed, the commit of the
\* second one succeeded, and the generated files were committed
C15_Witness ==
  \E n \in DOMAIN units :
    LET u == units[n] IN
    /\ u.pc = "done" /\ u.data.round = 1
    /\ Len(Reads(u)) = 2
    /\ ~Reads(u)[1].ok /\ Reads(u)[2].ok
    /\ Last(At(u.trace, {"attach"})).ok
    /\ At(u.trace, {"files"}) # <<>>

\* the commits of the generated files a unit has made: <<path, content>>
FileCommits(u) ==
  LET made == At(u.trace, {"files"}) IN
  [k \in DOMAIN made |-> <<made[k].a[1], made[k].a[2]>>]

\* the generated files as <<path, content>>, in iteration order
Generated(u) == [k \in DOMAIN u.files |-> <<u.files[k].path, u.files[k].content>>]

AllOk(events) == \A k \in DOMAIN events : events[k].ok

\* what the commits of a trace leave at path: the content of the last commit
\* there that succeeded
FinalContent(trace, path) ==
  LET at == {k \in DOMAIN trace :
               /\ trace[k].op \in {"create_or_update_file",
                                   "create_or_update_binary_file"}
               /\ trace[k].ok /\ trace[k].a[1] = path}
  IN IF at = {} THEN None
     ELSE Some(trace[CHOOSE k \in at : \A j \in at : j <= k].a[2])

GeneratorReturned(u) ==
  LET gens == Calls(u.trace, "generate_app_code") IN gens # <<>> /\ gens[1].ok

AfterLicense == {"pages", "sha", "notify", "load", "open", "write", "done"}

\* C16, as stated: in every unit whose generator returned, once its commits
\* are over every generated file has been committed exactly once, in
\* iteration order, and the LICENSE with the standard body after them, so that
\* the repository's LICENSE is the standard body.
C16_FilesAndLicenseAlways ==
  \A n \in DOMAIN units :
    LET u == units[n] IN
    Running(u) /\ GeneratorReturned(u) /\ u.pc \notin {"attach", "files", "license"} =>
      /\ FileCommits(u) = Generated(u)
      /\ AllOk(At(u.trace, {"files"}))
      /\ Brief(At(u.trace, {"license"})) = <<<<"create_or_update_file", "LICENSE", TRUE>>>>
      /\ FinalContent(u.trace, "LICENSE") = Some(MitText)

\* C16, amended: the generated files are committed one commit per file, in
\* iteration order, each at most once, until a commit throws, which ends the
\* unit; the LICENSE with the standard body is committed once, after all of
\* them have been committed, whatever the mapping holds; and in a unit that
\* is past the LICENSE commit every generated file has been committed exactly
\* once and the repository's LICENSE is the standard body.
C16_FilesThenLicense ==
  \A n \in DOMAIN units :
    LET u == units[n]
        made == At(u.trace, {"files"})
        license == At(u.trace, {"license"})
    IN
    Running(u) =>
      /\ IsPrefix(FileCommits(u), Generated(u))
      /\ \A k \in DOMAIN made : ~made[k].ok => k = Len(made) /\ u.pc = "failed"
      /\ Len(license) <= 1
      /\ license # <<>> =>
           /\ FileCommits(u) = Generated(u) /\ AllOk(made)
           /\ license[1].op = "create_or_update_file"
           /\ license[1].a = <<"LICENSE", MitText>>
           /\ ~license[1].ok => u.pc = "failed"
           /\ \A k \in DOMAIN u.trace :
                u.trace[k].at \in {"attach", "files"} =>
                  \E j \in DOMAIN u.trace : j > k /\ u.trace[j].at = "license"
      /\ u.pc \in AfterLicense =>
           /\ Brief(license) = <<<<"create_or_update_file", "LICENSE", TRUE>>>>
           /\ FinalContent(u.trace, "LICENSE") = Some(MitText)

\* a unit whose generator returned a file named LICENSE has committed it and
\* then the standard body over it, in a repository an earlier unit has
\* published to
C16_Witness ==
  /\ Len(units) = 2
  /\ units[1].pc = "returned"
  /\ file.state = "whole" /\ DOMAIN file.data # {}
  /\ LET u == units[2] IN
     /\ u.pc = "done"
     /\ <<"LICENSE", "custom">> \in {FileCommits(u)[k] : k \in DOMAIN FileCommits(u)}
     /\ FinalContent(u.trace, "LICENSE") = Some(MitText)

\* unit n has saved: it is at the end of line 233
Saved(n) == units[n].pc = "done"

\* no unit but n and m has opened the backing file for writing
OnlyWriters(n, m) ==
  \A o \in DOMAIN units \ {n, m} :
    units[o].pc \notin {"write", "done", "returned"}

\* C17: when two units with different keys have both loaded the store before
\* either saved and both have saved, the store holds the record of the last
\* writer only, or nothing readable, and the other unit's request, submitted
\* again, is accepted as new.
C17_LostUpdate ==
  \A n, m \in DOMAIN units :
    LET a == units[n]
        b == units[m]
    IN
    /\ n # m /\ Saved(n) /\ Saved(m) /\ OnlyWriters(n, m)
    /\ KeyOf(a.data) # KeyOf(b.data)
    /\ KeyOf(a.data) \notin DOMAIN Loaded(b)
    /\ KeyOf(b.data) \notin DOMAIN Loaded(a)
    => \/ /\ file = Whole(a.processed)
          /\ DOMAIN file.data = {KeyOf(a.data)}
          /\ Intake(b.data, file) = "accepted"
       \/ /\ file = Whole(b.processed)
          /\ DOMAIN file.data = {KeyOf(b.data)}
          /\ Intake(a.data, file) = "accepted"
       \/ /\ file.state = "invalid"
          /\ Intake(a.data, file) = "accepted"
          /\ Intake(b.data, file) = "accepted"

\* both units loaded an empty store and saved; the store holds the second
\* unit's record only, and the first unit's request would be accepted again
C17_Witness ==
  /\ Len(units) = 2 /\ Saved(1) /\ Saved(2)
  /\ KeyOf(units[1].data) # KeyOf(units[2].data)
  /\ Loaded(units[1]) = EmptyMap /\ Loaded(units[2]) = EmptyMap
  /\ file.state = "whole" /\ DOMAIN file.data = {KeyOf(units[2].data)}
  /\ Intake(units[1].data, file) = "accepted"

\* a unit that has been scheduled and has not stored its record yet
InProgress(u) == u.pc \notin {"done", "failed", "returned", "raised"}

\* C18: an authorized request whose key is not in the store is accepted and
\* gets a unit of its own also while a unit for the same key is in progress;
\* and a unit that runs to its end has made one Notifier call and one write
\* of its record, whether or not another unit for its key has done the same.
C18_NoDedupInProgress ==
  /\ [][ReturnsRight =>
          LET task == last'[1].task IN
          /\ ~Stored(file, KeyOf(task))
          /\ \E n \in DOMAIN units :
               InProgress(units[n]) /\ KeyFields(units[n].data) = KeyFields(task)
          => /\ last'[1].status = "accepted"
             /\ Len(units') = Len(units) + 1
             /\ Last(units').data = task /\ Last(units').pc = "decode"
             /\ \A n \in DOMAIN units : units'[n] = units[n]]_vars
  /\ [](\A n \in DOMAIN units :
          LET u == units[n]
              writes == Calls(u.trace, "save_processed")
          IN
          u.pc = "done" =>
            /\ NotifiedOnce(u)
            /\ Len(writes) = 1
            /\ KeyOf(u.data) \in DOMAIN writes[1].a[1]
            /\ KeyFields(writes[1].a[1][KeyOf(u.data)]) = KeyFields(u.data))

\* two units for one key, both accepted before either had stored, have both
\* run to the end: two Notifier calls and two writes of the record
C18_Witness ==
  /\ Len(units) = 2 /\ Saved(1) /\ Saved(2)
  /\ KeyFields(units[1].data) = KeyFields(units[2].data)
  /\ KeyOf(units[1].data) \notin DOMAIN Loaded(units[2])
  /\ KeyOf(units[2].data) \notin DOMAIN Loaded(units[1])
  /\ NotifiedOnce(units[1]) /\ NotifiedOnce(units[2])
  /\ Len(Calls(units[1].trace, "save_processed")) = 1
  /\ Len(Calls(units[2].trace, "save_processed")) = 1

\* every record of mapping m is held under the key of its own fields
KeyedByOwnFields(m) ==
  \A k \in DOMAIN m :
    k = IdempotencyKey(m[k].email, m[k].task, m[k].round, m[k].nonce)

\* the payload a unit sent to the Notifier
Notified(u) == Calls(u.trace, "notify_evaluation_server")[1].a[2]

\* C19: every record in the store is held under the key of its own email,
\* task, round and nonce; the record a unit stores is held under the key the
\* intake path computes for the unit's request, and is, field for field, the
\* payload that unit sent to the Notifier.
C19_RecordIsNotifiedPayload ==
  /\ KeyedByOwnFields(load_processed(file))
  /\ \A n \in DOMAIN units :
       LET u == units[n]
           key == KeyOf(u.data)
       IN
       u.pc \in {"open", "write", "done"} =>
         /\ KeyedByOwnFields(u.processed)
         /\ key \in DOMAIN u.processed
         /\ u.processed[key] = Notified(u)
         /\ KeyFields(u.processed[key]) = KeyFields(u.data)
         /\ u.pc = "done" =>
              /\ Last(u.trace).a[1][key] = Notified(u)
              /\ file = Whole(u.processed) =>
                   /\ file.data[key] = Notified(u)
                   /\ Intake(u.data, file) = "duplicate"

\* the store holds two records; the one the unit has just written carries a
\* commit SHA and is the payload the unit notified
C19_Witness ==
  \E n \in DOMAIN units :
    LET u == units[n] IN
    /\ u.pc = "done" /\ file = Whole(u.processed)
    /\ Cardinality(DOMAIN file.data) = 2
    /\ file.data[KeyOf(u.data)].commit_sha = Some("abc123")
    /\ file.data[KeyOf(u.data)] = Notified(u)

====
